---- MODULE Spec2Model ----
(***************************************************************************)
(* Button-Box firmware: the main loop of src/main.rs (GPIO sampling,       *)
(* change detection, HID report push) and the ButtonBoxHidReport value     *)
(* type of src/hid_descriptor.rs.                                          *)
(*                                                                         *)
(* The two units share no state.  Init chooses which one a behaviour       *)
(* exercises (unit = "firmware": the loop of main(); unit = "report": a    *)
(* driver calling the ButtonBoxHidReport API in any order; unit =          *)
(* "helpers": calls of the button_helpers functions and of the setters on  *)
(* a report holding any byte; unit = "tables": readers of the descriptor   *)
(* tables).                                                                *)
(***************************************************************************)
EXTENDS Integers, Sequences, FiniteSets, TLC

\* ------------------------------------------------------------------ bounds

\* Longest input slice handed to from_bytes.
MaxLen == 2

\* The count of physical button changes saturates here.
ChangeCap == 3

\* The count of reports the transport accepted saturates here.
AcceptCap == 2

\* ------------------------------------------------------------- u8 bit ops

Byte == 0..255

RECURSIVE BitAnd(_, _)
\* a & b on unsigned integers
BitAnd(a, b) ==
    IF a = 0 \/ b = 0 THEN 0
    ELSE (a % 2) * (b % 2) + 2 * BitAnd(a \div 2, b \div 2)

RECURSIVE BitOr(_, _)
\* a | b on unsigned integers
BitOr(a, b) ==
    IF a = 0 THEN b
    ELSE IF b = 0 THEN a
    ELSE (IF a % 2 = 1 \/ b % 2 = 1 THEN 1 ELSE 0) + 2 * BitOr(a \div 2, b \div 2)

\* !a on a u8
BitNot8(a) == 255 - a

\* Option<T>: None is the empty sequence, Some(x) is <<x>>.
None == << >>
Some(x) == <<x>>

\* --------------------------------------------------------------- state

VARIABLES
    unit,         \* which unit the behaviour exercises: "firmware" or "report"
    \* ---- src/main.rs
    pc,           \* position of main()'s loop body
    pin1,         \* what button1.is_low() answers now: "low", "high" or "err"
    pin2,         \* what button2.is_low() answers now
    low1,         \* button1.is_low().unwrap_or(false) as read in this iteration
    low2,         \* button2.is_low().unwrap_or(false) as read in this iteration
    last_report,  \* ButtonBox.last_report
    active,       \* what usb_dev.poll returned in this iteration
    changed,      \* what has_changed returned in this iteration
    offered,      \* bytes of the report handed to push_input in this iteration
    sends,        \* number of push_input calls in this iteration
    pushResult,   \* push_input's answer in this iteration ("none" before it)
    hostView,     \* bytes of the last report the transport accepted
    steps,        \* the steps this iteration has performed, in order
    hist,         \* <<sample of the previous has_changed, sample of the latest>>
    afterFail,    \* Some(buttons offered) from a busy/failed send until the next has_changed
    unsent,       \* Some(bytes) answered WouldBlock and not accepted since
    physChanges,  \* how often the pressed/released state of the buttons changed (saturating)
    accepted,     \* how many reports the transport accepted (saturating)
    \* ---- src/hid_descriptor.rs
    report,       \* the ButtonBoxHidReport the driver holds
    op,           \* the last ButtonBoxHidReport operation called
    fbInput,      \* the slice given to the last from_bytes
    fbResult,     \* what the last from_bytes returned (Option)
    wire,         \* what the last as_bytes returned
    \* ---- src/hid_descriptor.rs, button_helpers and the setters on any byte
    hop,          \* the last helper call
    hin,          \* its arguments
    hout,         \* what it returned
    \* ---- src/hid_descriptor.rs, the descriptor tables
    itemWalk,     \* a reader of HID_REPORT_DESCRIPTOR, item by item
    fieldWalk     \* a reader of FIELD_DESCRIPTIONS, entry by entry

loopVars == <<pc, pin1, pin2, low1, low2, last_report, active, changed, offered,
              sends, pushResult, hostView, steps, hist, afterFail, unsent,
              physChanges, accepted>>
apiVars == <<report, op, fbInput, fbResult, wire>>
helperVars == <<hop, hin, hout>>
tableVars == <<itemWalk, fieldWalk>>
vars == <<unit, pc, pin1, pin2, low1, low2, last_report, active, changed, offered,
          sends, pushResult, hostView, steps, hist, afterFail, unsent,
          physChanges, accepted,
          report, op, fbInput, fbResult, wire, hop, hin, hout,
          itemWalk, fieldWalk>>

\* ------------------------------------------------- src/hid_descriptor.rs

\* ButtonBoxHidReport::new
new == [buttons |-> 0]

set_button1_assign(self, pressed) ==
    IF pressed
    THEN [self EXCEPT !.buttons = 1]
    ELSE [self EXCEPT !.buttons = BitAnd(self.buttons, BitNot8(1))]

\* ButtonBoxHidReport::set_button1
set_button1(self, pressed) ==
    IF pressed
    THEN [self EXCEPT !.buttons = BitOr(self.buttons, 1)]
    ELSE [self EXCEPT !.buttons = BitAnd(self.buttons, BitNot8(1))]

\* ButtonBoxHidReport::set_button2
set_button2(self, pressed) ==
    IF pressed
    THEN [self EXCEPT !.buttons = BitOr(self.buttons, 2)]
    ELSE [self EXCEPT !.buttons = BitAnd(self.buttons, BitNot8(2))]

\* ButtonBoxHidReport::as_bytes
as_bytes(self) == <<self.buttons>>

from_bytes_unmasked(bytes) ==
    IF Len(bytes) >= 1 THEN Some([buttons |-> bytes[1]]) ELSE None

from_bytes_long(bytes) ==
    IF Len(bytes) > 1 THEN Some([buttons |-> BitAnd(bytes[1], 3)]) ELSE None

\* ButtonBoxHidReport::from_bytes
from_bytes(bytes) ==
    IF Len(bytes) >= 1 THEN Some([buttons |-> BitAnd(bytes[1], 3)]) ELSE None

\* ButtonBoxHidReport::button1_pressed
button1_pressed(self) == BitAnd(self.buttons, 1) # 0

\* ButtonBoxHidReport::button2_pressed
button2_pressed(self) == BitAnd(self.buttons, 2) # 0

\* button_bits
BUTTON1_BIT == 1
BUTTON2_BIT == 2
BUTTON_MASK == 3
PADDING_MASK == 252

extract_buttons_same_bit(raw_byte) ==
    <<BitAnd(raw_byte, BUTTON1_BIT) # 0, BitAnd(raw_byte, BUTTON1_BIT) # 0>>

\* button_helpers::extract_buttons
extract_buttons(raw_byte) ==
    LET button1 == BitAnd(raw_byte, BUTTON1_BIT) # 0
        button2 == BitAnd(raw_byte, BUTTON2_BIT) # 0
    IN  <<button1, button2>>

\* button_helpers::create_button_byte
create_button_byte(button1, button2) ==
    LET byte0 == 0
        byte1 == IF button1 THEN BitOr(byte0, BUTTON1_BIT) ELSE byte0
        byte2 == IF button2 THEN BitOr(byte1, BUTTON2_BIT) ELSE byte1
    IN  byte2

is_valid_button_byte_button_mask(byte) == BitAnd(byte, BUTTON_MASK) = 0

\* button_helpers::is_valid_button_byte
is_valid_button_byte(byte) == BitAnd(byte, PADDING_MASK) = 0

\* The slices the driver hands to from_bytes: empty, or any first byte followed
\* by up to MaxLen - 1 further bytes.
TailBytes == {0, 255}
RECURSIVE Tails(_)
Tails(n) ==
    IF n = 0 THEN {<< >>}
    ELSE Tails(n - 1) \cup {Append(t, b) : t \in Tails(n - 1), b \in TailBytes}
ByteSlices == {<< >>} \cup {<<b>> \o t : b \in Byte, t \in Tails(MaxLen - 1)}

\* ------------------------------- src/hid_descriptor.rs, descriptor tables

HID_REPORT_DESCRIPTOR_count5 ==
    << \h05, \h01,
       \h09, \h05,
       \hA1, \h01,
       \h09, \h01,
       \hA1, \h00,
       \h05, \h09,
       \h19, \h01,
       \h29, \h02,
       \h15, \h00,
       \h25, \h01,
       \h95, \h02,
       \h75, \h01,
       \h81, \h02,
       \h95, \h05,
       \h75, \h01,
       \h81, \h01,
       \hC0,
       \hC0 >>

\* HID_REPORT_DESCRIPTOR
HID_REPORT_DESCRIPTOR ==
    << \h05, \h01,
       \h09, \h05,
       \hA1, \h01,
       \h09, \h01,
       \hA1, \h00,
       \h05, \h09,
       \h19, \h01,
       \h29, \h02,
       \h15, \h00,
       \h25, \h01,
       \h95, \h02,
       \h75, \h01,
       \h81, \h02,
       \h95, \h06,
       \h75, \h01,
       \h81, \h01,
       \hC0,
       \hC0 >>

\* descriptor_fields::FIELD_DESCRIPTIONS.  The first string of an entry,
\* "0x05, 0x01", is written as the hex digit pairs it holds.
FIELD_DESCRIPTIONS ==
    << << << <<"0", "5">>, <<"0", "1">> >>, "Usage Page (Generic Desktop)" >>,
       << << <<"0", "9">>, <<"0", "5">> >>, "Usage (Gamepad)" >>,
       << << <<"A", "1">>, <<"0", "1">> >>, "Collection (Application)" >>,
       << << <<"0", "9">>, <<"0", "1">> >>, "Usage (Pointer)" >>,
       << << <<"A", "1">>, <<"0", "0">> >>, "Collection (Physical)" >>,
       << << <<"0", "5">>, <<"0", "9">> >>, "Usage Page (Button)" >>,
       << << <<"1", "9">>, <<"0", "1">> >>, "Usage Minimum (Button 1)" >>,
       << << <<"2", "9">>, <<"0", "2">> >>, "Usage Maximum (Button 2)" >>,
       << << <<"1", "5">>, <<"0", "0">> >>, "Logical Minimum (0)" >>,
       << << <<"2", "5">>, <<"0", "1">> >>, "Logical Maximum (1)" >>,
       << << <<"9", "5">>, <<"0", "2">> >>, "Report Count (2 buttons)" >>,
       << << <<"7", "5">>, <<"0", "1">> >>, "Report Size (1 bit each)" >>,
       << << <<"8", "1">>, <<"0", "2">> >>, "Input (Data, Variable, Absolute)" >>,
       << << <<"9", "5">>, <<"0", "6">> >>, "Report Count (6 padding bits)" >>,
       << << <<"7", "5">>, <<"0", "1">> >>, "Report Size (1 bit each)" >>,
       << << <<"8", "1">>, <<"0", "1">> >>, "Input (Constant, Variable, Absolute)" >>,
       << << <<"C", "0">> >>, "End Collection (Physical)" >>,
       << << <<"C", "0">> >>, "End Collection (Application)" >> >>

\* The value of a hex digit, and of the byte "0xHL".
HexDigits ==
    <<"0", "1", "2", "3", "4", "5", "6", "7", "8", "9", "A", "B", "C", "D", "E", "F">>
HexVal(c) == (CHOOSE i \in 1..16 : HexDigits[i] = c) - 1
HexByte(pair) == 16 * HexVal(pair[1]) + HexVal(pair[2])

\* The bytes an entry of FIELD_DESCRIPTIONS names.
FieldBytes(entry) == [i \in 1..Len(entry[1]) |-> HexByte(entry[1][i])]

\* A short item of the descriptor: its prefix byte says how many data bytes
\* follow it (0, 1, 2 or 4).
ItemDataLen(prefix) == IF prefix % 4 = 3 THEN 4 ELSE prefix % 4

\* The item that starts at position pos of a descriptor.
ItemAt(desc, pos) ==
    LET last == pos + ItemDataLen(desc[pos])
    IN  SubSeq(desc, pos, IF last > Len(desc) THEN Len(desc) ELSE last)

\* ----------------------------------------------------------- src/main.rs

PinStates == {"low", "high", "err"}

is_low_or_true(pin) == IF pin = "err" THEN TRUE ELSE pin = "low"

\* pin.is_low().unwrap_or(false): an Err reading counts as not low
is_low_or_false(pin) == IF pin = "err" THEN FALSE ELSE pin = "low"

\* A button is pressed when its active-low input is low.
Pressed(pin) == pin = "low"

\* ButtonBox::new: the retained report
InitialReport == [buttons |-> 0, padding |-> 0]

read_buttons_else_if(l1, l2) ==
    [buttons |-> IF l1 THEN 1 ELSE IF l2 THEN 2 ELSE 0, padding |-> 0]

read_buttons_dirty_padding(l1, l2) ==
    [buttons |-> BitOr(IF l1 THEN 1 ELSE 0, IF l2 THEN 2 ELSE 0), padding |-> 252]

\* ButtonBox::read_buttons, from the two readings
read_buttons(l1, l2) ==
    LET b0 == 0
        b1 == IF l1 THEN BitOr(b0, 1) ELSE b0
        b2 == IF l2 THEN BitOr(b1, 2) ELSE b1
    IN  [buttons |-> b2, padding |-> 0]

has_changed_no_store(last, current_report) ==
    [changed |-> current_report.buttons # last.buttons, last_report |-> last]

has_changed_bit0_only(last, current_report) ==
    [changed |-> (current_report.buttons % 2) # (last.buttons % 2),
     last_report |-> current_report]

has_changed_always(last, current_report) ==
    [changed |-> TRUE, last_report |-> current_report]

\* ButtonBox::has_changed, after read_buttons: the result and the new last_report
has_changed(last, current_report) ==
    [changed |-> current_report.buttons # last.buttons, last_report |-> current_report]

get_report_initial(last) == InitialReport

\* ButtonBox::get_report
get_report(last) == last

\* The bytes of a ButtonBoxReport as push_input writes them: the derived
\* serializer writes each field of the struct at its storage width (u8, u8).
Serialize(r) == <<r.buttons, r.padding>>

\* What push_input can answer: Ok(_), Err(UsbError::WouldBlock), Err(_).
PushResults == {"Ok", "WouldBlock", "Err"}

\* ------------------------------------------------------------ initial state

Init ==
    /\ unit \in {"firmware", "report", "helpers", "tables"}
    /\ pc = "poll"
    /\ pin1 \in (IF unit = "firmware" THEN PinStates ELSE {"high"})
    /\ pin2 \in (IF unit = "firmware" THEN PinStates ELSE {"high"})
    /\ low1 = FALSE
    /\ low2 = FALSE
    /\ last_report = InitialReport
    /\ active = FALSE
    /\ changed = FALSE
    /\ offered = << >>
    /\ sends = 0
    /\ pushResult = "none"
    /\ hostView = << >>
    /\ steps = << >>
    /\ hist = <<0, 0>>
    /\ afterFail = None
    /\ unsent = None
    /\ physChanges = 0
    /\ accepted = 0
    /\ report = new
    /\ op = "new"
    /\ fbInput = << >>
    /\ fbResult = None
    /\ wire = << >>
    /\ hop = "none"
    /\ hin = << >>
    /\ hout = << >>
    /\ itemWalk = [pos |-> 1, items |-> << >>, report_count |-> 0, report_size |-> 0,
                   data_bits |-> 0, const_bits |-> 0]
    /\ fieldWalk = [idx |-> 0, bytes |-> << >>]

\* ------------------------------------------------- the loop of main()

UsbPoll_ungated ==
    /\ unit = "firmware"
    /\ pc = "poll"
    /\ \E a \in BOOLEAN : active' = a
    /\ pc' = "read1"
    /\ steps' = Append(steps, "poll")
    /\ UNCHANGED <<unit, physChanges, accepted, pin1, pin2, low1, low2, last_report, changed, offered, sends,
                   pushResult, hostView, hist, afterFail, unsent>>
    /\ UNCHANGED <<apiVars, helperVars, tableVars>>

\* usb_dev.poll(&mut [&mut hid]): the transport decides what it answers
UsbPoll ==
    /\ unit = "firmware"
    /\ pc = "poll"
    /\ \E a \in BOOLEAN :
        /\ active' = a
        /\ pc' = IF a THEN "read1" ELSE "delay"
    /\ steps' = Append(steps, "poll")
    /\ UNCHANGED <<unit, physChanges, accepted, pin1, pin2, low1, low2, last_report, changed, offered, sends,
                   pushResult, hostView, hist, afterFail, unsent>>
    /\ UNCHANGED <<apiVars, helperVars, tableVars>>

\* read_buttons: self.button1.is_low().unwrap_or(false)
ReadButton1 ==
    /\ unit = "firmware"
    /\ pc = "read1"
    /\ low1' = is_low_or_false(pin1)
    /\ pc' = "read2"
    /\ UNCHANGED <<unit, physChanges, accepted, pin1, pin2, low2, last_report, active, changed, offered, sends,
                   pushResult, hostView, steps, hist, afterFail, unsent>>
    /\ UNCHANGED <<apiVars, helperVars, tableVars>>

\* read_buttons: self.button2.is_low().unwrap_or(false)
ReadButton2 ==
    /\ unit = "firmware"
    /\ pc = "read2"
    /\ low2' = is_low_or_false(pin2)
    /\ pc' = "compare"
    /\ steps' = Append(steps, "sample")
    /\ UNCHANGED <<unit, physChanges, accepted, pin1, pin2, low1, last_report, active, changed, offered, sends,
                   pushResult, hostView, hist, afterFail, unsent>>
    /\ UNCHANGED <<apiVars, helperVars, tableVars>>

\* has_changed: build the report from the readings, compare, store
HasChanged ==
    /\ unit = "firmware"
    /\ pc = "compare"
    /\ LET current_report == read_buttons(low1, low2)
           r == has_changed(last_report, current_report)
       IN  /\ last_report' = r.last_report
           /\ changed' = r.changed
           /\ hist' = <<hist[2], current_report.buttons>>
           /\ pc' = IF r.changed THEN "push" ELSE "delay"
    /\ steps' = Append(steps, "detect")
    /\ afterFail' = None
    /\ UNCHANGED <<unit, physChanges, accepted, pin1, pin2, low1, low2, active, offered, sends, pushResult,
                   hostView, unsent>>
    /\ UNCHANGED <<apiVars, helperVars, tableVars>>

PushInput_rollback ==
    /\ unit = "firmware"
    /\ pc = "push"
    /\ LET rep == get_report(last_report)
           bytes == Serialize(rep)
       IN  \E res \in PushResults :
            /\ offered' = bytes
            /\ pushResult' = res
            /\ hostView' = IF res = "Ok" THEN bytes ELSE hostView
            /\ accepted' = IF res = "Ok" /\ accepted < AcceptCap THEN accepted + 1
                           ELSE accepted
            /\ afterFail' = IF res = "Ok" THEN None ELSE Some(rep.buttons)
            /\ unsent' = IF res = "WouldBlock" THEN Some(bytes)
                         ELSE IF res = "Ok" /\ unsent = Some(bytes) THEN None
                         ELSE unsent
            /\ last_report' = IF res = "WouldBlock" THEN InitialReport ELSE last_report
    /\ sends' = sends + 1
    /\ steps' = Append(steps, "send")
    /\ pc' = "delay"
    /\ UNCHANGED <<unit, physChanges, pin1, pin2, low1, low2, active, changed, hist>>
    /\ UNCHANGED <<apiVars, helperVars, tableVars>>

PushInput_pending ==
    /\ unit = "firmware"
    /\ pc = "push"
    /\ LET rep == get_report(last_report)
           bytes == IF unsent # None THEN unsent[1] ELSE Serialize(rep)
       IN  \E res \in PushResults :
            /\ offered' = bytes
            /\ pushResult' = res
            /\ hostView' = IF res = "Ok" THEN bytes ELSE hostView
            /\ accepted' = IF res = "Ok" /\ accepted < AcceptCap THEN accepted + 1
                           ELSE accepted
            /\ afterFail' = IF res = "Ok" THEN None ELSE Some(rep.buttons)
            /\ unsent' = IF res = "WouldBlock" THEN Some(bytes)
                         ELSE IF res = "Ok" /\ unsent = Some(bytes) THEN None
                         ELSE unsent
    /\ sends' = sends + 1
    /\ steps' = Append(steps, "send")
    /\ pc' = "delay"
    /\ UNCHANGED <<unit, physChanges, pin1, pin2, low1, low2, last_report, active, changed,
                   hist>>
    /\ UNCHANGED <<apiVars, helperVars, tableVars>>

\* let report = button_box.get_report(); match hid.push_input(&report) { ... }
PushInput ==
    /\ unit = "firmware"
    /\ pc = "push"
    /\ LET rep == get_report(last_report)
           bytes == Serialize(rep)
       IN  \E res \in PushResults :
            /\ offered' = bytes
            /\ pushResult' = res
            /\ hostView' = IF res = "Ok" THEN bytes ELSE hostView
            /\ accepted' = IF res = "Ok" /\ accepted < AcceptCap THEN accepted + 1
                           ELSE accepted
            /\ afterFail' = IF res = "Ok" THEN None ELSE Some(rep.buttons)
            /\ unsent' = IF res = "WouldBlock" THEN Some(bytes)
                         ELSE IF res = "Ok" /\ unsent = Some(bytes) THEN None
                         ELSE unsent
    /\ sends' = sends + 1
    /\ steps' = Append(steps, "send")
    /\ pc' = "delay"
    /\ UNCHANGED <<unit, physChanges, pin1, pin2, low1, low2, last_report, active, changed,
                   hist>>
    /\ UNCHANGED <<apiVars, helperVars, tableVars>>

\* delay.delay_us(100), then the next iteration
Delay ==
    /\ unit = "firmware"
    /\ pc = "delay"
    /\ pc' = "poll"
    /\ low1' = FALSE
    /\ low2' = FALSE
    /\ active' = FALSE
    /\ changed' = FALSE
    /\ offered' = << >>
    /\ sends' = 0
    /\ pushResult' = "none"
    /\ steps' = << >>
    /\ UNCHANGED <<unit, physChanges, accepted, pin1, pin2, last_report, hostView, hist, afterFail, unsent>>
    /\ UNCHANGED <<apiVars, helperVars, tableVars>>

\* The buttons (or the pins' readability) change, at any moment.
EnvChange ==
    /\ unit = "firmware"
    /\ \E p1 \in PinStates, p2 \in PinStates :
        /\ <<p1, p2>> # <<pin1, pin2>>
        /\ pin1' = p1
        /\ pin2' = p2
        /\ physChanges' =
              IF <<Pressed(p1), Pressed(p2)>> # <<Pressed(pin1), Pressed(pin2)>>
                 /\ physChanges < ChangeCap
              THEN physChanges + 1
              ELSE physChanges
    /\ UNCHANGED <<unit, accepted, pc, low1, low2, last_report, active, changed, offered, sends,
                   pushResult, hostView, steps, hist, afterFail, unsent>>
    /\ UNCHANGED <<apiVars, helperVars, tableVars>>

LoopStep == UsbPoll \/ ReadButton1 \/ ReadButton2 \/ HasChanged \/ PushInput \/ Delay

\* ------------------------------------- calls of the ButtonBoxHidReport API

New ==
    /\ unit = "report"
    /\ report' = new
    /\ op' = "new"
    /\ fbInput' = << >>
    /\ fbResult' = None
    /\ wire' = << >>
    /\ UNCHANGED unit
    /\ UNCHANGED <<loopVars, helperVars, tableVars>>

SetButton1 ==
    /\ unit = "report"
    /\ \E pressed \in BOOLEAN : report' = set_button1(report, pressed)
    /\ op' = "set_button1"
    /\ fbInput' = << >>
    /\ fbResult' = None
    /\ wire' = << >>
    /\ UNCHANGED unit
    /\ UNCHANGED <<loopVars, helperVars, tableVars>>

SetButton2 ==
    /\ unit = "report"
    /\ \E pressed \in BOOLEAN : report' = set_button2(report, pressed)
    /\ op' = "set_button2"
    /\ fbInput' = << >>
    /\ fbResult' = None
    /\ wire' = << >>
    /\ UNCHANGED unit
    /\ UNCHANGED <<loopVars, helperVars, tableVars>>

AsBytes ==
    /\ unit = "report"
    /\ wire' = as_bytes(report)
    /\ op' = "as_bytes"
    /\ fbInput' = << >>
    /\ fbResult' = None
    /\ UNCHANGED <<unit, report>>
    /\ UNCHANGED <<loopVars, helperVars, tableVars>>

\* let r = ButtonBoxHidReport::from_bytes(bytes); a Some(report) becomes the
\* report the driver holds
FromBytes ==
    /\ unit = "report"
    /\ \E bytes \in ByteSlices :
        LET r == from_bytes(bytes)
        IN  /\ fbInput' = bytes
            /\ fbResult' = r
            /\ report' = IF r = None THEN report ELSE r[1]
    /\ op' = "from_bytes"
    /\ wire' = << >>
    /\ UNCHANGED unit
    /\ UNCHANGED <<loopVars, helperVars, tableVars>>

\* ------------------------------ calls of the helpers and of the setters

ExtractButtons ==
    /\ unit = "helpers"
    /\ \E v \in Byte :
        /\ hin' = <<v>>
        /\ hout' = extract_buttons(v)
    /\ hop' = "extract_buttons"
    /\ UNCHANGED <<unit, loopVars, apiVars, tableVars>>

CreateButtonByte ==
    /\ unit = "helpers"
    /\ \E b1 \in BOOLEAN, b2 \in BOOLEAN :
        /\ hin' = <<b1, b2>>
        /\ hout' = <<create_button_byte(b1, b2)>>
    /\ hop' = "create_button_byte"
    /\ UNCHANGED <<unit, loopVars, apiVars, tableVars>>

IsValidButtonByte ==
    /\ unit = "helpers"
    /\ \E v \in Byte :
        /\ hin' = <<v>>
        /\ hout' = <<is_valid_button_byte(v)>>
    /\ hop' = "is_valid_button_byte"
    /\ UNCHANGED <<unit, loopVars, apiVars, tableVars>>

\* extract_buttons(create_button_byte(b1, b2))
DecodeEncoded ==
    /\ unit = "helpers"
    /\ \E b1 \in BOOLEAN, b2 \in BOOLEAN :
        /\ hin' = <<b1, b2>>
        /\ hout' = extract_buttons(create_button_byte(b1, b2))
    /\ hop' = "decode_encoded"
    /\ UNCHANGED <<unit, loopVars, apiVars, tableVars>>

\* let (b1, b2) = extract_buttons(v); create_button_byte(b1, b2)
EncodeDecoded ==
    /\ unit = "helpers"
    /\ \E v \in Byte :
        LET d == extract_buttons(v)
        IN  /\ hin' = <<v>>
            /\ hout' = <<create_button_byte(d[1], d[2])>>
    /\ hop' = "encode_decoded"
    /\ UNCHANGED <<unit, loopVars, apiVars, tableVars>>

\* set_button1(pressed) on a report holding any byte: the byte after one call,
\* what button1_pressed then reads, and the byte after a second, equal call
SetButton1OnAny ==
    /\ unit = "helpers"
    /\ \E v \in Byte, pressed \in BOOLEAN :
        LET r1 == set_button1([buttons |-> v], pressed)
            r2 == set_button1(r1, pressed)
        IN  /\ hin' = [byte |-> v, pressed |-> pressed]
            /\ hout' = [once |-> r1.buttons, read |-> button1_pressed(r1),
                        twice |-> r2.buttons]
    /\ hop' = "set_button1"
    /\ UNCHANGED <<unit, loopVars, apiVars, tableVars>>

\* set_button2(pressed) on a report holding any byte
SetButton2OnAny ==
    /\ unit = "helpers"
    /\ \E v \in Byte, pressed \in BOOLEAN :
        LET r1 == set_button2([buttons |-> v], pressed)
            r2 == set_button2(r1, pressed)
        IN  /\ hin' = [byte |-> v, pressed |-> pressed]
            /\ hout' = [once |-> r1.buttons, read |-> button2_pressed(r1),
                        twice |-> r2.buttons]
    /\ hop' = "set_button2"
    /\ UNCHANGED <<unit, loopVars, apiVars, tableVars>>

\* ------------------------------------- readers of the descriptor tables

\* The host reads the next item of HID_REPORT_DESCRIPTOR: Report Count (0x95)
\* and Report Size (0x75) set the size of the fields an Input item (0x81)
\* declares, constant when bit 0 of its data is set.
ReadItem ==
    /\ unit = "tables"
    /\ itemWalk.pos <= Len(HID_REPORT_DESCRIPTOR)
    /\ LET item == ItemAt(HID_REPORT_DESCRIPTOR, itemWalk.pos)
           prefix == item[1]
           value == IF Len(item) > 1 THEN item[2] ELSE 0
           bits == itemWalk.report_count * itemWalk.report_size
       IN  itemWalk' =
             [pos |-> itemWalk.pos + Len(item),
              items |-> Append(itemWalk.items, item),
              report_count |-> IF prefix = \h95 THEN value ELSE itemWalk.report_count,
              report_size |-> IF prefix = \h75 THEN value ELSE itemWalk.report_size,
              data_bits |-> IF prefix = \h81 /\ value % 2 = 0
                            THEN itemWalk.data_bits + bits ELSE itemWalk.data_bits,
              const_bits |-> IF prefix = \h81 /\ value % 2 = 1
                             THEN itemWalk.const_bits + bits ELSE itemWalk.const_bits]
    /\ UNCHANGED <<unit, fieldWalk, loopVars, apiVars, helperVars>>

\* Diagnostics read the next entry of FIELD_DESCRIPTIONS and append its bytes.
ReadField ==
    /\ unit = "tables"
    /\ fieldWalk.idx < Len(FIELD_DESCRIPTIONS)
    /\ fieldWalk' =
          [idx |-> fieldWalk.idx + 1,
           bytes |-> fieldWalk.bytes \o FieldBytes(FIELD_DESCRIPTIONS[fieldWalk.idx + 1])]
    /\ UNCHANGED <<unit, itemWalk, loopVars, apiVars, helperVars>>

\* ------------------------------------------------------- specifications

Next ==
    \/ UsbPoll
    \/ ReadButton1
    \/ ReadButton2
    \/ HasChanged
    \/ PushInput
    \/ Delay
    \/ EnvChange
    \/ New
    \/ SetButton1
    \/ SetButton2
    \/ AsBytes
    \/ FromBytes
    \/ ExtractButtons
    \/ CreateButtonByte
    \/ IsValidButtonByte
    \/ DecodeEncoded
    \/ EncodeDecoded
    \/ SetButton1OnAny
    \/ SetButton2OnAny
    \/ ReadItem
    \/ ReadField

Spec == Init /\ [][Next]_vars

\* The transport accepts the report offered to it.
PushAccepted == PushInput /\ pushResult' = "Ok"

\* The transport poll reports activity.
PollActive == UsbPoll /\ active'

\* The loop never stops (loop { ... } with no exit); the host keeps polling and
\* does not answer busy or error forever.
FairSpec ==
    /\ Init
    /\ [][Next]_vars
    /\ WF_vars(LoopStep)
    /\ SF_vars(PollActive)
    /\ SF_vars(PushAccepted)

\* ---------------------------------------------------------------- claims

\* The step that completes has_changed in this iteration.
DetectStep == pc = "compare" /\ pc' # "compare"

\* has_changed has run in this iteration.
DetectDone == Len(steps) >= 3

\* The serialized forms of the four reports the sampler can build.
ReportBytes == {<<b, 0>> : b \in 0..3}

\* C1: every byte returned by as_bytes, and every byte of a report handed to
\* push_input, has bits 2..7 clear (byte & 0xFC == 0).
C1_ReservedBitsZero ==
    /\ \A i \in 1..Len(wire) : BitAnd(wire[i], 252) = 0
    /\ \A i \in 1..Len(offered) : BitAnd(offered[i], 252) = 0

C1_Witness == op = "as_bytes" /\ wire = <<3>>

\* C2: a has_changed step with retained byte R and sample S (both in 0..3)
\* returns Changed and retains S when S # R, and returns Unchanged and retains
\* R when S = R.
C2_DecisionRule ==
    [][DetectStep =>
        LET R == last_report.buttons
            S == hist'[2]
        IN  /\ R \in 0..3
            /\ S \in 0..3
            /\ (S # R => changed' /\ last_report'.buttons = S)
            /\ (S = R => ~changed' /\ last_report'.buttons = R)]_vars

C2_Witness ==
    DetectDone /\ hist = <<1, 3>> /\ changed /\ last_report.buttons = 3

\* C3: the k-th has_changed returns Changed exactly when its sample differs
\* from the sample of the previous has_changed (0x00 before the first one).
C3_EdgeDetection == DetectDone => (changed <=> hist[2] # hist[1])

C3_Witness == DetectDone /\ hist = <<1, 1>> /\ ~changed

\* C4: report bytes that push_input answered with WouldBlock are offered to
\* push_input again in a later iteration.
C4_BusyRetried ==
    \A b \in ReportBytes : (pc = "poll" /\ unsent = Some(b)) ~> (offered = b)

\* C5: the send step finds the retained report already equal to the sample and
\* leaves it as it is whatever the transport answers; after a busy or failed
\* send, a following has_changed with the same sample returns Unchanged.
C5_SendKeepsRetained ==
    [][/\ (pc = "push" /\ pc' # "push") =>
            /\ last_report.buttons = hist[2]
            /\ last_report' = last_report
       /\ (DetectStep /\ afterFail # None /\ hist'[2] = afterFail[1]) => ~changed']_vars

C5_Witness ==
    /\ DetectDone /\ ~changed
    /\ hist = <<1, 1>>
    /\ unsent = Some(<<1, 0>>)
    /\ hostView = << >>

\* C6 (as stated): every iteration performs poll, sample, detect in this
\* order, and a send exactly when the outcome is Changed.
C6_StepOrderEveryIteration ==
    pc = "delay" =>
        /\ Len(steps) >= 3
        /\ SubSeq(steps, 1, 3) = <<"poll", "sample", "detect">>
        /\ (Len(steps) = 4 <=> changed)
        /\ (Len(steps) = 4 => steps[4] = "send")

\* C6 (amended): every iteration starts with the transport poll; an iteration
\* whose poll reports activity then performs sample, detect and, exactly when
\* the outcome is Changed, send, in this order; an iteration whose poll reports
\* no activity performs nothing else.
C6_StepOrderWhenActive ==
    pc = "delay" =>
        steps = IF active
                THEN <<"poll", "sample", "detect">>
                     \o (IF changed THEN <<"send">> ELSE << >>)
                ELSE <<"poll">>

C6_Witness == pc = "delay" /\ active /\ changed /\ Len(steps) = 4

\* C7: a has_changed whose sample equals the retained byte returns Unchanged
\* and leaves every field of the retained report as it was.
C7_PollIdempotent ==
    [][(DetectStep /\ hist'[2] = last_report.buttons) =>
        (~changed' /\ last_report' = last_report)]_vars

C7_Witness ==
    DetectDone /\ ~changed /\ hist = <<3, 3>> /\ last_report = [buttons |-> 3, padding |-> 0]

\* C8: from retained 0x00, a has_changed that read both buttons low returns one
\* Changed carrying 0x03, and the iteration sends at most once, the 0x03 report.
C8_SimultaneousChange ==
    /\ [](sends <= 1)
    /\ []((sends = 1 /\ hist = <<0, 3>>) => offered[1] = 3)
    /\ [][(DetectStep /\ last_report.buttons = 0 /\ low1 /\ low2) =>
            (changed' /\ last_report'.buttons = 3 /\ hist'[2] = 3 /\ pc' = "push")]_vars

C8_Witness == pc = "delay" /\ hist = <<0, 3>> /\ sends = 1 /\ offered[1] = 3

\* C9: from_bytes returns None on an empty slice and, on any longer slice,
\* Some(report) with buttons = bytes[0] & 0x03 (the low two bits of the first
\* byte), whatever the later bytes are.
C9_FromBytes ==
    op = "from_bytes" =>
        IF Len(fbInput) = 0
        THEN fbResult = None
        ELSE fbResult = Some([buttons |-> fbInput[1] % 4]) /\ report = fbResult[1]

C9_Witness ==
    op = "from_bytes" /\ fbInput = <<255>> /\ fbResult = Some([buttons |-> 3])

\* C10: every report put on the wire is exactly one byte long: the value
\* as_bytes returns, and the ButtonBoxReport handed to push_input.
C10_WireReportOneByte ==
    /\ op = "as_bytes" => Len(wire) = 1
    /\ sends > 0 => Len(offered) = 1

\* The step that completes push_input in this iteration.
SendStep == pc = "push" /\ pc' # "push"

\* The buttons byte the host last received (0x00 before any report).
HostButtons == IF hostView = << >> THEN 0 ELSE hostView[1]

\* The buttons byte of a pressed/released state of the two inputs.
StateByte(p1, p2) == (IF Pressed(p1) THEN 1 ELSE 0) + (IF Pressed(p2) THEN 2 ELSE 0)

\* C16: nothing but the retained report is kept for sending: a report the
\* transport accepts carries the sample of the iteration that sends it, never
\* an earlier report that was answered busy.  (The coalescing run itself is
\* C16_Witness.)
C16_AcceptedIsLatestSample ==
    [][(SendStep /\ pushResult' = "Ok") =>
        (hostView'[1] = hist[2] /\ hostView'[1] = last_report.buttons)]_vars

\* The buttons changed twice, ending with both pressed; the 0x01 report sampled
\* in between was answered busy and never accepted; the iteration that sampled
\* 0x03 next has just had its report accepted, the only one ever accepted.
C16_Witness ==
    /\ physChanges = 2
    /\ pin1 = "low" /\ pin2 = "low"
    /\ hist = <<1, 3>>
    /\ unsent = Some(<<1, 0>>)
    /\ pc = "delay" /\ pushResult = "Ok" /\ offered = <<3, 0>>
    /\ accepted = 1
    /\ HostButtons = 3

\* C17: if the buttons stay in one state from some point on (the transport
\* poll reporting activity again and again, the transport not refusing
\* forever), then from some point on the last accepted report is that state.
C17_EventualHostConsistency ==
    \A p1 \in {"low", "high"}, p2 \in {"low", "high"} :
        <>[](unit = "firmware" /\ pin1 = p1 /\ pin2 = p2)
            => <>[](HostButtons = StateByte(p1, p2))

\* C18: an iteration calls push_input at most once, and only after its
\* transport poll reported activity and its has_changed returned true (its
\* sample differs from the report retained before).
C18_NoSpuriousSend ==
    /\ sends <= 1
    /\ sends > 0 => (active /\ DetectDone /\ changed /\ hist[2] # hist[1])
    /\ (pc = "delay" /\ DetectDone /\ hist[2] = hist[1]) => sends = 0

C18_Witness == pc = "delay" /\ active /\ DetectDone /\ ~changed /\ sends = 0 /\ hist = <<2, 2>>

\* C19: the report handed to push_input is the sample has_changed took in the
\* same iteration and the retained report of that moment, with padding 0.
C19_SentIsFreshSample ==
    sends > 0 =>
        /\ offered = <<hist[2], 0>>
        /\ offered = <<last_report.buttons, last_report.padding>>

C19_Witness == sends = 1 /\ offered = <<2, 0>> /\ hist = <<3, 2>> /\ pushResult = "Err"

\* C11: extract_buttons(create_button_byte(b1, b2)) = (b1, b2) for all b1, b2,
\* and create_button_byte(extract_buttons(v)) = v & 0x03 for every byte v.
C11_RoundTrip ==
    /\ hop = "decode_encoded" => hout = hin
    /\ hop = "encode_decoded" => hout[1] = hin[1] % 4

C11_Witness == hop = "encode_decoded" /\ hin = <<254>> /\ hout = <<2>>

\* C12: set_button1 changes at most bit 0 and set_button2 at most bit 1 of any
\* byte; the targeted bit then equals pressed and is what button1_pressed /
\* button2_pressed reads; a second equal call changes nothing.
C12_SetButtonFrame ==
    /\ hop = "set_button1" =>
        /\ hout.once \div 2 = hin.byte \div 2
        /\ (hout.once % 2 = 1) <=> hin.pressed
        /\ hout.read = hin.pressed
        /\ hout.twice = hout.once
    /\ hop = "set_button2" =>
        /\ hout.once \div 4 = hin.byte \div 4
        /\ hout.once % 2 = hin.byte % 2
        /\ ((hout.once \div 2) % 2 = 1) <=> hin.pressed
        /\ hout.read = hin.pressed
        /\ hout.twice = hout.once

C12_Witness ==
    /\ hop = "set_button1"
    /\ hin = [byte |-> 254, pressed |-> TRUE]
    /\ hout = [once |-> 255, read |-> TRUE, twice |-> 255]

\* C13: create_button_byte and read_buttons set bit 0 iff button 1 is active,
\* bit 1 iff button 2 is active and no other bit; a pin whose read fails counts
\* as released; reading the pins leaves the retained report as it is.
C13_SamplingEncodes ==
    /\ [](hop = "create_button_byte" =>
            hout[1] = (IF hin[1] THEN 1 ELSE 0) + (IF hin[2] THEN 2 ELSE 0))
    /\ [][/\ (pc = "read1" /\ pc' = "read2") =>
                (low1' = (pin1 = "low") /\ last_report' = last_report)
          /\ (pc = "read2" /\ pc' = "compare") =>
                (low2' = (pin2 = "low") /\ last_report' = last_report)
          /\ DetectStep =>
                hist'[2] = (IF low1 THEN 1 ELSE 0) + (IF low2 THEN 2 ELSE 0)]_vars

C13_Witness ==
    /\ pc = "push"
    /\ pin1 = "err" /\ pin2 = "low"
    /\ ~low1 /\ low2
    /\ hist[2] = 2

\* C14: is_valid_button_byte(v) is true iff v & 0xFC == 0 (v < 4), for every
\* byte v; the bytes create_button_byte, read_buttons and from_bytes produce
\* pass it.
C14_Validation ==
    /\ hop = "is_valid_button_byte" => (hout[1] <=> hin[1] \div 4 = 0)
    /\ hop = "create_button_byte" => is_valid_button_byte(hout[1])
    /\ DetectDone => is_valid_button_byte(hist[2])
    /\ (op = "from_bytes" /\ fbResult # None) => is_valid_button_byte(fbResult[1].buttons)

C14_Witness == hop = "is_valid_button_byte" /\ hin = <<4>> /\ hout = <<FALSE>>

\* The items of section 6, by their HID short-item prefix and data byte; an
\* Input item is named by its data/constant bit alone.
Section6Items ==
    << <<"Usage Page", 1>>, <<"Usage", 5>>, <<"Collection", 1>>,
       <<"Usage", 1>>, <<"Collection", 0>>,
       <<"Usage Page", 9>>, <<"Usage Minimum", 1>>, <<"Usage Maximum", 2>>,
       <<"Logical Minimum", 0>>, <<"Logical Maximum", 1>>,
       <<"Report Count", 2>>, <<"Report Size", 1>>, <<"Input", 0>>,
       <<"Report Count", 6>>, <<"Report Size", 1>>, <<"Input", 1>>,
       <<"End Collection", 0>>, <<"End Collection", 0>> >>

ItemName(prefix) ==
    CASE prefix = \h05 -> "Usage Page"
      [] prefix = \h09 -> "Usage"
      [] prefix = \hA1 -> "Collection"
      [] prefix = \h19 -> "Usage Minimum"
      [] prefix = \h29 -> "Usage Maximum"
      [] prefix = \h15 -> "Logical Minimum"
      [] prefix = \h25 -> "Logical Maximum"
      [] prefix = \h95 -> "Report Count"
      [] prefix = \h75 -> "Report Size"
      [] prefix = \h81 -> "Input"
      [] prefix = \hC0 -> "End Collection"
      [] OTHER -> "unknown"

\* An item as section 6 names it.
Named(item) ==
    <<ItemName(item[1]),
      IF Len(item) = 1 THEN 0
      ELSE IF item[1] = \h81 THEN item[2] % 2
      ELSE item[2]>>

ItemsRead == itemWalk.pos > Len(HID_REPORT_DESCRIPTOR)
FieldsRead == fieldWalk.idx = Len(FIELD_DESCRIPTIONS)

====
